---- MODULE Spec2Model ----
(***************************************************************************)
(* State-machine model of xcache: the LIRS engine (LIRSCache) behind the   *)
(* sharded front-end (XCache).  The engine state of every bucket is a      *)
(* record; the engine's methods are operators from records to records,     *)
(* translated statement by statement; the front-end's methods are the      *)
(* actions.                                                                *)
(***************************************************************************)
EXTENDS Integers, Sequences, FiniteSets, TLC

\* ------------------------------------------------------------------ bounds
NumKeys == 3
NumValues == 1
MaxSize == 3
MaxLookups == 2
NumKeysScan == 4
MaxSizeScan == 2
NumKeysE == 2
NumValuesE == 2
MaxSizeE == 2
MaxTime == 1
MaxDuration == 1
MaxBuckets == 3
NumThreads == 3
MaxCalls == 4
NumThreadsAsync == 2
MaxCallsAsync == 2
NumThreadsLocks == 2
MaxCallsLocks == 3

Keys == 1..NumKeys
Values == 1..NumValues
Sizes == 1..MaxSize
KeysScan == 1..NumKeysScan
SizesScan == 1..MaxSizeScan
KeysE == 1..NumKeysE
ValuesE == 1..NumValuesE
SizesE == 1..MaxSizeE
Durations == 0..MaxDuration
BucketCounts == 2..MaxBuckets
Threads == 1..NumThreads
AsyncThreads == 1..NumThreadsAsync
LockThreads == 1..NumThreadsLocks
BuildSizes == (-1)..MaxSizeE
AllKeys == Keys \cup KeysScan \cup KeysE
AllValues == Values \cup ValuesE

\* ------------------------------------------------------- nil and error values
NilTime == -1
NilDuration == -1
NilValue == 0
NilKey == 0
ErrNil == "nil"
ErrKeyNotFoundError == "KeyNotFound"
ErrSerialize == "SerializeFailed"
ErrDeserialize == "DeserializeFailed"
ErrLoader == "LoaderFailed"
ErrPanic == "panic: xcache: bucket size <= 0"
HookNil == "nil"
HookFails == "fails"
\* a failing hook rejects these keys and accepts the others
HookErrKeys == {2}

VARIABLES
    buckets,      \* XCache.buckets: bucket index -> LIRSCache
    bucketCount,  \* XCache.bucketCount
    stats,        \* XCache.stats
    clockNow,     \* what the injected Clock's Now() returns
    wallNow,      \* what time.Now() returns
    last,         \* the most recent call of the API and what it returned
    written,      \* history: per key, the value and deadline of its latest Set/SetWithExpire
    pc,           \* per thread: where it is in a Get/GetIFPresent that went to the loader
    calls,        \* loadGroup: the keys with a call in flight
    loads,        \* history: per key, the loader invocations in progress and so far
    issued,       \* history: the number of lookups the threads have started
    mu,           \* the mutexes: who holds xc.mu and each shard's c.mu
    at            \* per thread: the call it is in, when calls are taken lock by lock

loadVars == <<pc, calls, loads, issued, mu, at>>

vars == <<buckets, bucketCount, stats, clockNow, wallNow, last, written, loadVars>>

\* ------------------------------------------------------------ list helpers
Contains(s, k) == \E i \in 1..Len(s) : s[i] = k
ListRemove(s, k) == SelectSeq(s, LAMBDA x : x # k)
PushFront(s, k) == <<k>> \o s
PushBack(s, k) == Append(s, k)
Back(s) == s[Len(s)]
Front(s) == s[1]

\* ------------------------------------------------------------- construction
newLIRSCache(n, exp) ==
    LET lir0 == (n * 99) \div 100
        lir == IF lir0 < 1 THEN n - 1 ELSE lir0
        hir0 == n - lir
        hir == IF hir0 < 1 THEN 1 ELSE hir0
    IN [ size |-> n,
         expiration |-> exp,
         items |-> <<>>,
         stackS |-> <<>>,
         queueQ |-> <<>>,
         lirCount |-> 0,
         maxLirCount |-> lir,
         maxHirCount |-> hir,
         hitCount |-> 0,
         missCount |-> 0,
         evicted |-> <<>>,
         purged |-> <<>>,
         serializeFunc |-> HookNil,
         deserializeFunc |-> HookNil,
         loaderExpireFunc |-> FALSE ]

IsExpiredAtDeadline(it, now) ==
    IF it.expiration = NilTime THEN FALSE ELSE it.expiration <= now

IsExpired(it, now) ==
    IF it.expiration = NilTime THEN FALSE ELSE it.expiration < now

\* ------------------------------------------------------ stack S and queue Q
inStack(c, k) == Contains(c.stackS, k)
inQueue(c, k) == Contains(c.queueQ, k)

insertIntoStack(c, k) ==
    [c EXCEPT !.stackS = PushFront(ListRemove(c.stackS, k), k)]

moveToStackTop(c, k) ==
    IF inStack(c, k)
    THEN [c EXCEPT !.stackS = PushFront(ListRemove(c.stackS, k), k)]
    ELSE insertIntoStack(c, k)

insertIntoQueue(c, k) ==
    [c EXCEPT !.queueQ = PushBack(ListRemove(c.queueQ, k), k)]

moveToQueueEnd(c, k) ==
    IF inQueue(c, k)
    THEN [c EXCEPT !.queueQ = PushBack(ListRemove(c.queueQ, k), k)]
    ELSE insertIntoQueue(c, k)

evictFromQ(c) ==
    IF Len(c.queueQ) = 0
    THEN c
    ELSE LET k == Front(c.queueQ)
         IN [c EXCEPT !.queueQ = Tail(c.queueQ),
                      !.items[k].isResident = FALSE,
                      !.evicted = Append(c.evicted, <<k, c.items[k].value>>)]

getStackBottom(c) == IF Len(c.stackS) = 0 THEN NilKey ELSE Back(c.stackS)

isStackBottom(c, k) ==
    IF Len(c.stackS) = 0 \/ ~inStack(c, k) THEN FALSE ELSE Back(c.stackS) = k

RECURSIVE pruneStack(_)
pruneStack(c) ==
    IF Len(c.stackS) > 0 /\ ~c.items[Back(c.stackS)].isLIR
    THEN pruneStack([c EXCEPT !.stackS = SubSeq(c.stackS, 1, Len(c.stackS) - 1)])
    ELSE c

getResidentCount(c) ==
    Cardinality({k \in DOMAIN c.items : c.items[k].isResident})

removeItemKeepsLirCount(c, k) ==
    LET it == c.items[k]
    IN [c EXCEPT !.stackS = ListRemove(c.stackS, k),
                 !.queueQ = ListRemove(c.queueQ, k),
                 !.items = [x \in (DOMAIN c.items) \ {k} |-> c.items[x]],
                 !.evicted = IF it.isResident
                             THEN Append(@, <<k, it.value>>) ELSE @]

removeItemAlwaysNotifies(c, k) ==
    LET it == c.items[k]
    IN [c EXCEPT !.stackS = ListRemove(c.stackS, k),
                 !.queueQ = ListRemove(c.queueQ, k),
                 !.lirCount = IF it.isLIR THEN @ - 1 ELSE @,
                 !.items = [x \in (DOMAIN c.items) \ {k} |-> c.items[x]],
                 !.evicted = Append(@, <<k, it.value>>)]

removeItem(c, k) ==
    LET it == c.items[k]
    IN [c EXCEPT !.stackS = ListRemove(c.stackS, k),
                 !.queueQ = ListRemove(c.queueQ, k),
                 !.lirCount = IF it.isLIR THEN @ - 1 ELSE @,
                 !.items = [x \in (DOMAIN c.items) \ {k} |-> c.items[x]],
                 !.evicted = IF it.isResident
                             THEN Append(@, <<k, it.value>>) ELSE @]

evictLeastRecentItem(c) ==
    IF Len(c.queueQ) > 0
    THEN evictFromQ(c)
    ELSE LET bottom == getStackBottom(c)
         IN IF bottom # NilKey /\ c.items[bottom].isLIR
            THEN removeItem(c, bottom)
            ELSE c

\* convertToHIR without the decrement of lirCount
convertToHIRKeepsLirCount(c, k) ==
    LET c1 == [c EXCEPT !.items[k].isLIR = FALSE]
        c2 == IF isStackBottom(c1, k)
              THEN [c1 EXCEPT !.stackS = ListRemove(c1.stackS, k)]
              ELSE c1
    IN IF c2.items[k].isResident THEN insertIntoQueue(c2, k) ELSE c2

convertToHIR(c, k) ==
    LET c1 == [c EXCEPT !.items[k].isLIR = FALSE, !.lirCount = @ - 1]
        c2 == IF isStackBottom(c1, k)
              THEN [c1 EXCEPT !.stackS = ListRemove(c1.stackS, k)]
              ELSE c1
    IN IF c2.items[k].isResident THEN insertIntoQueue(c2, k) ELSE c2

\* convertToLIR without the removal of the promoted entry from queue Q
convertToLIRKeepsQueued(c, k) ==
    LET bottom0 == getStackBottom(c)
        c1 == IF getResidentCount(c) >= c.size
                 /\ bottom0 # NilKey /\ c.items[bottom0].isLIR /\ bottom0 # k
              THEN evictFromQ(convertToHIR(c, bottom0))
              ELSE c
        c2 == [c1 EXCEPT !.items[k].isLIR = TRUE,
                         !.lirCount = @ + 1]
        c3 == moveToStackTop(c2, k)
        bottom1 == getStackBottom(c3)
        c4 == IF bottom1 # NilKey /\ bottom1 # k /\ c3.items[bottom1].isLIR
              THEN convertToHIR(c3, bottom1)
              ELSE c3
    IN pruneStack(c4)

convertToLIR(c, k) ==
    LET bottom0 == getStackBottom(c)
        c1 == IF getResidentCount(c) >= c.size
                 /\ bottom0 # NilKey /\ c.items[bottom0].isLIR /\ bottom0 # k
              THEN evictFromQ(convertToHIR(c, bottom0))
              ELSE c
        c2 == [c1 EXCEPT !.items[k].isLIR = TRUE,
                         !.lirCount = @ + 1,
                         !.queueQ = ListRemove(c1.queueQ, k)]
        c3 == moveToStackTop(c2, k)
        bottom1 == getStackBottom(c3)
        c4 == IF bottom1 # NilKey /\ bottom1 # k /\ c3.items[bottom1].isLIR
              THEN convertToHIR(c3, bottom1)
              ELSE c3
    IN pruneStack(c4)

ensureSpace(c) ==
    IF getResidentCount(c) >= c.size THEN evictLeastRecentItem(c) ELSE c

accessItem(c, k) ==
    IF c.items[k].isLIR
    THEN LET c1 == moveToStackTop(c, k)
         IN IF isStackBottom(c1, k) THEN pruneStack(c1) ELSE c1
    ELSE IF c.items[k].isResident
         THEN IF inStack(c, k) THEN convertToLIR(c, k) ELSE moveToQueueEnd(c, k)
         ELSE IF inStack(c, k)
              THEN LET c1 == ensureSpace(c)
                       c2 == [c1 EXCEPT !.items[k].isResident = TRUE]
                   IN insertIntoStack(convertToLIR(c2, k), k)
              ELSE LET c1 == ensureSpace(c)
                       c2 == [c1 EXCEPT !.items[k].isResident = TRUE]
                   IN insertIntoStack(insertIntoQueue(c2, k), k)

\* ------------------------------------------------------------------- set
\* set without the test of lirCount against maxLirCount: every new entry is LIR
setIgnoresMaxLirCount(c, key, value, now) ==
    IF key \in DOMAIN c.items
    THEN LET c1 == [c EXCEPT !.items[key].value = value,
                             !.items[key].expiration =
                                 IF c.expiration # NilDuration
                                 THEN now + c.expiration ELSE @]
         IN accessItem(c1, key)
    ELSE LET c1 == ensureSpace(c)
             it == [ value |-> value,
                     expiration |-> IF c.expiration # NilDuration
                                    THEN now + c.expiration ELSE NilTime,
                     isLIR |-> TRUE,
                     isResident |-> TRUE ]
             c2 == [c1 EXCEPT !.items = (key :> it) @@ c1.items,
                              !.lirCount = @ + 1]
         IN insertIntoStack(c2, key)

\* set that resets the expiration of an existing entry when the cache has no
\* default expiration
setClearsExpiration(c, key, value, now) ==
    IF key \in DOMAIN c.items
    THEN LET c1 == [c EXCEPT !.items[key].value = value,
                             !.items[key].expiration =
                                 IF c.expiration # NilDuration
                                 THEN now + c.expiration ELSE NilTime]
         IN accessItem(c1, key)
    ELSE LET c1 == ensureSpace(c)
             lir == c1.lirCount < c1.maxLirCount
             it == [ value |-> value,
                     expiration |-> IF c.expiration # NilDuration
                                    THEN now + c.expiration ELSE NilTime,
                     isLIR |-> lir,
                     isResident |-> TRUE ]
             c2 == [c1 EXCEPT !.items = (key :> it) @@ c1.items,
                              !.lirCount = IF lir THEN @ + 1 ELSE @]
             c3 == insertIntoStack(c2, key)
         IN IF lir THEN c3 ELSE insertIntoQueue(c3, key)

set(c, key, value, now) ==
    IF key \in DOMAIN c.items
    THEN LET c1 == [c EXCEPT !.items[key].value = value,
                             !.items[key].expiration =
                                 IF c.expiration # NilDuration
                                 THEN now + c.expiration ELSE @]
         IN accessItem(c1, key)
    ELSE LET c1 == ensureSpace(c)
             lir == c1.lirCount < c1.maxLirCount
             it == [ value |-> value,
                     expiration |-> IF c.expiration # NilDuration
                                    THEN now + c.expiration ELSE NilTime,
                     isLIR |-> lir,
                     isResident |-> TRUE ]
             c2 == [c1 EXCEPT !.items = (key :> it) @@ c1.items,
                              !.lirCount = IF lir THEN @ + 1 ELSE @]
             c3 == insertIntoStack(c2, key)
         IN IF lir THEN c3 ELSE insertIntoQueue(c3, key)

beginCall(c) == [c EXCEPT !.evicted = <<>>, !.purged = <<>>]

\* the serializeFunc of set returns an error
serializeFails(c, key) == c.serializeFunc = HookFails /\ key \in HookErrKeys

\* the deserializeFunc of get and Peek returns an error
deserializeFails(c, key) == c.deserializeFunc = HookFails /\ key \in HookErrKeys

LIRSSet(c, key, value, now) ==
    IF serializeFails(c, key)
    THEN [c |-> beginCall(c), err |-> ErrSerialize]
    ELSE [c |-> set(beginCall(c), key, value, now), err |-> ErrNil]

LIRSSetWithExpire(c, key, value, d, now) ==
    IF serializeFails(c, key)
    THEN [c |-> beginCall(c), err |-> ErrSerialize]
    ELSE LET c1 == set(beginCall(c), key, value, now)
         IN [c |-> [c1 EXCEPT !.items[key].expiration = now + d], err |-> ErrNil]

\* ------------------------------------------------------------------- get
getValueCountsOnLoad(c, key, onLoad, now) ==
    IF key \notin DOMAIN c.items
    THEN [c |-> [c EXCEPT !.missCount = @ + 1],
          value |-> NilValue, err |-> ErrKeyNotFoundError]
    ELSE IF ~IsExpired(c.items[key], now) /\ c.items[key].isResident
         THEN LET c1 == accessItem(c, key)
              IN [c |-> [c1 EXCEPT !.hitCount = @ + 1],
                  value |-> c.items[key].value, err |-> ErrNil]
         ELSE LET c1 == IF IsExpired(c.items[key], now)
                        THEN removeItem(c, key) ELSE c
              IN [c |-> [c1 EXCEPT !.missCount = @ + 1],
                  value |-> NilValue, err |-> ErrKeyNotFoundError]

getValueIgnoresResidency(c, key, onLoad, now) ==
    IF key \notin DOMAIN c.items
    THEN [c |-> [c EXCEPT !.missCount = IF onLoad THEN @ ELSE @ + 1],
          value |-> NilValue, err |-> ErrKeyNotFoundError]
    ELSE IF ~IsExpired(c.items[key], now)
         THEN LET c1 == accessItem(c, key)
              IN [c |-> [c1 EXCEPT !.hitCount = IF onLoad THEN @ ELSE @ + 1],
                  value |-> c.items[key].value, err |-> ErrNil]
         ELSE LET c1 == removeItem(c, key)
              IN [c |-> [c1 EXCEPT !.missCount = IF onLoad THEN @ ELSE @ + 1],
                  value |-> NilValue, err |-> ErrKeyNotFoundError]

getValue(c, key, onLoad, now) ==
    IF key \notin DOMAIN c.items
    THEN [c |-> [c EXCEPT !.missCount = IF onLoad THEN @ ELSE @ + 1],
          value |-> NilValue, err |-> ErrKeyNotFoundError]
    ELSE IF ~IsExpired(c.items[key], now) /\ c.items[key].isResident
         THEN LET c1 == accessItem(c, key)
              IN [c |-> [c1 EXCEPT !.hitCount = IF onLoad THEN @ ELSE @ + 1],
                  value |-> c.items[key].value, err |-> ErrNil]
         ELSE LET c1 == IF IsExpired(c.items[key], now)
                        THEN removeItem(c, key) ELSE c
              IN [c |-> [c1 EXCEPT !.missCount = IF onLoad THEN @ ELSE @ + 1],
                  value |-> NilValue, err |-> ErrKeyNotFoundError]

deserialized(c, key, r) ==
    IF r.err # ErrNil THEN r
    ELSE IF deserializeFails(c, key)
         THEN [c |-> r.c, value |-> NilValue, err |-> ErrDeserialize]
         ELSE r

get(c, key, onLoad, now) == deserialized(c, key, getValue(c, key, onLoad, now))

getWithLoader(r, key, isWait) ==
    [c |-> r.c, value |-> NilValue, err |-> ErrKeyNotFoundError]

\* the callback getWithLoader hands to load: what the loader returned is
\* inserted under the engine lock, a loader error is passed through
loaderCallbackInsertsOnError(c, key, v, d, e, now) ==
    IF serializeFails(c, key)
    THEN [c |-> beginCall(c), value |-> NilValue, err |-> ErrSerialize]
    ELSE LET c1 == set(beginCall(c), key, v, now)
         IN [c |-> IF d = NilDuration THEN c1
                   ELSE [c1 EXCEPT !.items[key].expiration = now + d],
             value |-> IF e # ErrNil THEN NilValue ELSE v, err |-> e]

loaderCallback(c, key, v, d, e, now) ==
    IF e # ErrNil
    THEN [c |-> c, value |-> NilValue, err |-> e]
    ELSE IF serializeFails(c, key)
         THEN [c |-> beginCall(c), value |-> NilValue, err |-> ErrSerialize]
         ELSE LET c1 == set(beginCall(c), key, v, now)
              IN [c |-> IF d = NilDuration THEN c1
                        ELSE [c1 EXCEPT !.items[key].expiration = now + d],
                  value |-> v, err |-> ErrNil]

LIRSGet(c, key, now) ==
    LET r == get(beginCall(c), key, FALSE, now)
    IN IF r.err = ErrKeyNotFoundError THEN getWithLoader(r, key, TRUE) ELSE r

LIRSGetIFPresent(c, key, now) ==
    LET r == get(beginCall(c), key, FALSE, now)
    IN IF r.err = ErrKeyNotFoundError THEN getWithLoader(r, key, FALSE) ELSE r

LIRSPeekTouches(c, key, now) ==
    IF key \notin DOMAIN c.items
    THEN [c |-> beginCall(c), value |-> NilValue, err |-> ErrKeyNotFoundError]
    ELSE IF ~IsExpired(c.items[key], now) /\ c.items[key].isResident
         THEN [c |-> accessItem(beginCall(c), key),
               value |-> c.items[key].value, err |-> ErrNil]
         ELSE [c |-> beginCall(c), value |-> NilValue, err |-> ErrKeyNotFoundError]

LIRSPeekCounts(c, key, now) ==
    IF key \notin DOMAIN c.items
    THEN [c |-> [beginCall(c) EXCEPT !.missCount = @ + 1],
          value |-> NilValue, err |-> ErrKeyNotFoundError]
    ELSE IF ~IsExpired(c.items[key], now) /\ c.items[key].isResident
         THEN [c |-> [beginCall(c) EXCEPT !.hitCount = @ + 1],
               value |-> c.items[key].value, err |-> ErrNil]
         ELSE [c |-> [beginCall(c) EXCEPT !.missCount = @ + 1],
               value |-> NilValue, err |-> ErrKeyNotFoundError]

LIRSPeek(c, key, now) ==
    IF key \notin DOMAIN c.items
    THEN [c |-> beginCall(c), value |-> NilValue, err |-> ErrKeyNotFoundError]
    ELSE IF ~IsExpired(c.items[key], now) /\ c.items[key].isResident
         THEN IF deserializeFails(c, key)
              THEN [c |-> beginCall(c), value |-> NilValue, err |-> ErrDeserialize]
              ELSE [c |-> beginCall(c), value |-> c.items[key].value, err |-> ErrNil]
         ELSE [c |-> beginCall(c), value |-> NilValue, err |-> ErrKeyNotFoundError]

\* ------------------------------------------------- has, remove, len, purge
hasIgnoresResidency(c, key, now) ==
    IF key \notin DOMAIN c.items
    THEN FALSE
    ELSE ~IsExpired(c.items[key], now)

has(c, key, now) ==
    IF key \notin DOMAIN c.items
    THEN FALSE
    ELSE ~IsExpired(c.items[key], now) /\ c.items[key].isResident

LIRSHas(c, key, wall) == has(c, key, wall)

LIRSRemove(c, key) ==
    IF key \notin DOMAIN c.items
    THEN [c |-> beginCall(c), ok |-> FALSE]
    ELSE [c |-> removeItem(beginCall(c), key), ok |-> TRUE]

LIRSLen(c, checkExpired, wall) ==
    IF ~checkExpired
    THEN Cardinality({k \in DOMAIN c.items : c.items[k].isResident})
    ELSE Cardinality({k \in DOMAIN c.items : has(c, k, wall)})

LIRSKeys(c, checkExpired, wall) ==
    {k \in DOMAIN c.items : ~checkExpired \/ has(c, k, wall)}

\* the map GetALL returns, as its set of <<key, value>>
LIRSGetALL(c, checkExpired, wall) ==
    {<<k, c.items[k].value>> :
        k \in {x \in DOMAIN c.items :
                  c.items[x].isResident /\ (~checkExpired \/ has(c, x, wall))}}

purgeVisitsEveryEntry(c) ==
    [p \in {<<k, c.items[k].value>> : k \in DOMAIN c.items} |-> 1]

\* the calls of purgeVisitorFunc, as a bag of <<key, value>>: the range over
\* the map visits the entries in no particular order
purgeVisits(c) ==
    [p \in {<<k, c.items[k].value>> :
                k \in {x \in DOMAIN c.items : c.items[x].isResident}} |-> 1]

LIRSPurge(c) ==
    [beginCall(c) EXCEPT !.purged = purgeVisits(c),
                         !.stackS = <<>>, !.queueQ = <<>>,
                         !.items = <<>>, !.lirCount = 0]

\* ------------------------------------------------------------- front-end
\* xxhash.Sum64String of the "%v" text of the integer keys 1..5, as four
\* 16-bit limbs, most significant first
xxhashSum64 ==
    << <<47028, 4726, 13829, 25812>>,
       <<24609, 46434, 5760, 22923>>,
       <<9750, 31786, 62742, 11428>>,
       <<37177, 5170, 11428, 27529>>,
       <<27265, 46196, 1462, 18669>> >>

hashKey(key) == xxhashSum64[key]

\* hash % uint64(n) on the limbs
mod64(hash, n) ==
    LET r1 == hash[1] % n
        r2 == (r1 * 65536 + hash[2]) % n
        r3 == (r2 * 65536 + hash[3]) % n
    IN (r3 * 65536 + hash[4]) % n

getBucketByKey(key) == key % bucketCount

\* a shard choice that depends on the load seen so far, not on the key alone
getBucketByLoad(key) == (mod64(hashKey(key), bucketCount) + stats.missCount) % bucketCount

getBucket(key) == mod64(hashKey(key), bucketCount)

GetBucketIndex(key) == mod64(hashKey(key), bucketCount)

NoWrite == [value |-> NilValue, deadline |-> NilTime]

\* a thread outside any call, and a key the loader was never invoked for
Idle == [state |-> "idle", key |-> NilKey, isWait |-> FALSE,
         value |-> NilValue, err |-> ErrNil]
NoLoad == [running |-> 0, total |-> 0, cold |-> TRUE, failed |-> FALSE, value |-> NilValue]

\* a sync.RWMutex nobody holds, and a thread outside any call
Unlocked == [w |-> {}, r |-> {}]
NoOp == [op |-> "none", key |-> NilKey, value |-> NilValue, checkExpired |-> FALSE,
         bucket |-> 0, locked |-> FALSE, count |-> 0, keys |-> {}, all |-> {}]

Call(op, key, value, out, err, ok) ==
    [op |-> op, key |-> key, value |-> value, out |-> out, err |-> err, ok |-> ok]

Lookups == stats.hitCount + stats.missCount

Set(key, value) ==
    LET b == getBucket(key)
        r == LIRSSet(buckets[b], key, value, clockNow)
    IN /\ buckets' = [buckets EXCEPT ![b] = r.c]
       /\ last' = Call("Set", key, value, NilValue, r.err, TRUE)
       /\ written' = [written EXCEPT ![key] = [value |-> value, deadline |-> NilTime]]
       /\ UNCHANGED <<loadVars, bucketCount, stats, clockNow, wallNow>>

SetWithExpire(key, value, d) ==
    LET b == getBucket(key)
        r == LIRSSetWithExpire(buckets[b], key, value, d, clockNow)
    IN /\ buckets' = [buckets EXCEPT ![b] = r.c]
       /\ last' = Call("SetWithExpire", key, value, NilValue, r.err, TRUE)
       /\ written' = [written EXCEPT ![key] = [value |-> value, deadline |-> clockNow + d]]
       /\ UNCHANGED <<loadVars, bucketCount, stats, clockNow, wallNow>>

countLookup(err) ==
    IF err = ErrNil
    THEN [stats EXCEPT !.hitCount = @ + 1]
    ELSE IF err = ErrKeyNotFoundError
         THEN [stats EXCEPT !.missCount = @ + 1]
         ELSE stats

Get(key) ==
    /\ Lookups < MaxLookups
    /\ LET b == getBucket(key)
           r == LIRSGet(buckets[b], key, clockNow)
       IN /\ buckets' = [buckets EXCEPT ![b] = r.c]
          /\ stats' = countLookup(r.err)
          /\ last' = Call("Get", key, NilValue, r.value, r.err, r.err = ErrNil)
    /\ UNCHANGED <<loadVars, bucketCount, clockNow, wallNow, written>>

GetIFPresent(key) ==
    /\ Lookups < MaxLookups
    /\ LET b == getBucket(key)
           r == LIRSGetIFPresent(buckets[b], key, clockNow)
       IN /\ buckets' = [buckets EXCEPT ![b] = r.c]
          /\ stats' = countLookup(r.err)
          /\ last' = Call("GetIFPresent", key, NilValue, r.value, r.err, r.err = ErrNil)
    /\ UNCHANGED <<loadVars, bucketCount, clockNow, wallNow, written>>

Peek(key) ==
    LET b == getBucket(key)
        r == LIRSPeek(buckets[b], key, clockNow)
    IN /\ buckets' = [buckets EXCEPT ![b] = r.c]
       /\ last' = Call("Peek", key, NilValue, r.value, r.err, r.err = ErrNil)
       /\ UNCHANGED <<loadVars, bucketCount, stats, clockNow, wallNow, written>>

Has(key) ==
    LET b == getBucket(key)
    IN /\ buckets' = [buckets EXCEPT ![b] = beginCall(buckets[b])]
       /\ last' = Call("Has", key, NilValue, NilValue, ErrNil,
                       LIRSHas(buckets[b], key, wallNow))
       /\ UNCHANGED <<loadVars, bucketCount, stats, clockNow, wallNow, written>>

Remove(key) ==
    LET b == getBucket(key)
        r == LIRSRemove(buckets[b], key)
    IN /\ buckets' = [buckets EXCEPT ![b] = r.c]
       /\ last' = Call("Remove", key, NilValue, NilValue, ErrNil, r.ok)
       /\ written' = [written EXCEPT ![key] = NoWrite]
       /\ UNCHANGED <<loadVars, bucketCount, stats, clockNow, wallNow>>

Purge ==
    /\ buckets' = [b \in DOMAIN buckets |-> LIRSPurge(buckets[b])]
    /\ last' = Call("Purge", NilKey, NilValue, NilValue, ErrNil, TRUE)
    /\ written' = [k \in AllKeys |-> NoWrite]
    /\ UNCHANGED <<loadVars, bucketCount, stats, clockNow, wallNow>>

RECURSIVE sumLen(_, _, _)
sumLen(bs, n, checkExpired) ==
    IF n = 0 THEN 0
    ELSE sumLen(bs, n - 1, checkExpired) + LIRSLen(bs[n - 1], checkExpired, wallNow)

totalLen(checkExpired) == sumLen(buckets, bucketCount, checkExpired)

XCacheLen(checkExpired) ==
    /\ buckets' = [b \in DOMAIN buckets |-> beginCall(buckets[b])]
    /\ last' = Call("Len", NilKey, NilValue, totalLen(checkExpired), ErrNil, checkExpired)
    /\ UNCHANGED <<loadVars, bucketCount, stats, clockNow, wallNow, written>>

\* real time passes: the real clock and time.Now() advance together
Tick ==
    /\ clockNow < MaxTime
    /\ clockNow' = clockNow + 1
    /\ wallNow' = wallNow + 1
    /\ last' = Call("Tick", NilKey, NilValue, NilValue, ErrNil, TRUE)
    /\ buckets' = [b \in DOMAIN buckets |-> beginCall(buckets[b])]
    /\ UNCHANGED <<loadVars, bucketCount, stats, written>>

\* the injected clock is advanced by its owner: Clock.Now() moves, time.Now()
\* does not
ClockAdvance ==
    /\ clockNow < MaxTime
    /\ clockNow' = clockNow + 1
    /\ last' = Call("ClockAdvance", NilKey, NilValue, NilValue, ErrNil, TRUE)
    /\ buckets' = [b \in DOMAIN buckets |-> beginCall(buckets[b])]
    /\ UNCHANGED <<loadVars, bucketCount, stats, wallNow, written>>

\* real time passes while the injected clock stands still: time.Now() moves,
\* Clock.Now() does not
WallAdvance ==
    /\ wallNow < MaxTime
    /\ wallNow' = wallNow + 1
    /\ last' = Call("WallAdvance", NilKey, NilValue, NilValue, ErrNil, TRUE)
    /\ buckets' = [b \in DOMAIN buckets |-> beginCall(buckets[b])]
    /\ UNCHANGED <<loadVars, bucketCount, stats, clockNow, written>>

\* ----------------------------------------------- lookups that reach the loader
\* A Get or GetIFPresent of a cache built with a loader is several steps: the
\* lookup under the engine lock, the call group's decision, the loader's
\* return with the callback's insert, and the return of each caller.
opName(isWait) == IF isWait THEN "Get" ELSE "GetIFPresent"

\* a caller returns through XCache.Get / XCache.GetIFPresent
returnTo(t, key, isWait, value, err) ==
    /\ stats' = countLookup(err)
    /\ last' = Call(opName(isWait), key, NilValue, value, err, err = ErrNil)
    /\ pc' = [pc EXCEPT ![t] = Idle]

\* some lookup of the key has not returned, or its load is going on
inFlight(key) ==
    key \in calls \/ \E t \in Threads : pc[t].state # "idle" /\ pc[t].key = key

\* LIRSCache.Get / GetIFPresent up to the call of load. History: a key stays
\* cold while every lookup of it begins before any load of it has completed
\* and while no lookup of another key overlaps its lookups
GetStart(t, key, isWait) ==
    /\ pc[t].state = "idle"
    /\ issued < MaxCalls
    /\ issued' = issued + 1
    /\ loads' = [j \in AllKeys |->
                    [loads[j] EXCEPT !.cold =
                        IF j = key
                        THEN @ /\ loads[j].total = loads[j].running
                               /\ \A i \in AllKeys \ {j} : ~inFlight(i)
                        ELSE @ /\ ~inFlight(j)]]
    /\ LET b == getBucket(key)
           r == get(beginCall(buckets[b]), key, FALSE, clockNow)
       IN /\ buckets' = [buckets EXCEPT ![b] = r.c]
          /\ IF r.err = ErrKeyNotFoundError /\ buckets[b].loaderExpireFunc
             THEN /\ pc' = [pc EXCEPT ![t] = [state |-> "miss", key |-> key, isWait |-> isWait,
                                              value |-> NilValue, err |-> ErrNil]]
                  /\ UNCHANGED <<stats, last>>
             ELSE returnTo(t, key, isWait, r.value, r.err)
    /\ UNCHANGED <<mu, at, calls, bucketCount, clockNow, wallNow, written>>

\* load: the call group looks the key up once more without counting, then
\* joins the call in flight or registers a new one; a caller that does not
\* wait leaves with KeyNotFound while the load goes on
Do(t) ==
    /\ pc[t].state = "miss"
    /\ LET key == pc[t].key
           b == getBucket(key)
           r == get(beginCall(buckets[b]), key, TRUE, clockNow)
       IN /\ buckets' = [buckets EXCEPT ![b] = r.c]
          /\ IF r.err = ErrNil
             THEN /\ returnTo(t, key, pc[t].isWait, r.value, ErrNil)
                  /\ UNCHANGED <<calls, loads>>
             ELSE IF key \in calls
                  THEN /\ IF pc[t].isWait
                          THEN /\ pc' = [pc EXCEPT ![t].state = "wait"]
                               /\ UNCHANGED <<stats, last>>
                          ELSE returnTo(t, key, FALSE, NilValue, ErrKeyNotFoundError)
                       /\ UNCHANGED <<calls, loads>>
                  ELSE /\ calls' = calls \cup {key}
                       /\ loads' = [loads EXCEPT ![key].running = @ + 1, ![key].total = @ + 1]
                       /\ IF pc[t].isWait
                          THEN /\ pc' = [pc EXCEPT ![t].state = "load"]
                               /\ UNCHANGED <<stats, last>>
                          ELSE returnTo(t, key, FALSE, NilValue, ErrKeyNotFoundError)
    /\ UNCHANGED <<mu, at, issued, bucketCount, clockNow, wallNow, written>>

\* the loader returns (v, ttl d, e): the callback runs, the call is completed
\* and removed from the group, and every caller of the call is woken with its result
LoaderReturn(key, v, d, e) ==
    /\ key \in calls
    /\ LET b == getBucket(key)
           r == loaderCallback(buckets[b], key, v, d, e, clockNow)
       IN /\ buckets' = [buckets EXCEPT ![b] = r.c]
          /\ pc' = [t \in Threads |->
                      IF pc[t].key = key /\ pc[t].state \in {"load", "wait"}
                      THEN [pc[t] EXCEPT !.state = "wake", !.value = r.value, !.err = r.err]
                      ELSE pc[t]]
          /\ loads' = [loads EXCEPT ![key].running = @ - 1,
                                    ![key].failed = @ \/ r.err # ErrNil,
                                    ![key].value = r.value]
    /\ calls' = calls \ {key}
    /\ UNCHANGED <<mu, at, issued, bucketCount, stats, clockNow, wallNow, last, written>>

\* a caller of a completed call returns its result
Return(t) ==
    /\ pc[t].state = "wake"
    /\ returnTo(t, pc[t].key, pc[t].isWait, pc[t].value, pc[t].err)
    /\ UNCHANGED <<mu, at, buckets, calls, loads, issued, bucketCount, clockNow, wallNow, written>>

\* ------------------------------------------------- calls taken lock by lock
\* Every engine method takes its cache's c.mu and releases it on return
\* (defer); the front-end's aggregate methods call the shards one after the
\* other. A call is: enter, then for each shard it visits, Lock and Unlock,
\* the method's work being done when the lock is released.
writeOps == {"Set", "Get", "Remove", "Purge"}
readOps == {"Peek", "Has", "Len", "Keys", "GetAll"}
aggregateOps == {"Len", "Keys", "GetAll", "Purge"}

\* the shard locks a thread holds
shardsHeld(t) == {b \in DOMAIN mu.shard : t \in mu.shard[b].w \/ t \in mu.shard[b].r}

\* a thread has called c.mu.Lock() of shard b and has not got it yet
writerPending(b) ==
    \E t \in Threads : at[t].op \in writeOps /\ ~at[t].locked /\ at[t].bucket = b

\* sync.RWMutex: Lock waits for the holders to leave, RLock for the writer
\* that holds the mutex or is waiting for it
canLock(t) ==
    /\ at[t].op # "none" /\ ~at[t].locked
    /\ LET m == mu.shard[at[t].bucket]
       IN IF at[t].op \in writeOps
          THEN m.w = {} /\ m.r = {}
          ELSE m.w = {} /\ ~writerPending(at[t].bucket)

lock(m, t, b, write) ==
    IF write
    THEN [m EXCEPT !.shard[b].w = @ \cup {t}]
    ELSE [m EXCEPT !.shard[b].r = @ \cup {t}]

unlockKeepsHold(m, t, b) == m

\* an Unlock that releases read holds only
unlockReadersOnly(m, t, b) == [m EXCEPT !.shard[b].r = @ \ {t}]

\* an Unlock that releases the write hold only
unlockWritersOnly(m, t, b) == [m EXCEPT !.shard[b].w = @ \ {t}]

unlock(m, t, b) ==
    [m EXCEPT !.shard[b].w = @ \ {t}, !.shard[b].r = @ \ {t}]

\* XCache.Set, Get, Peek, Has, Remove: getBucket(key), then the shard's method
EnterPoint(t, op, key, value) ==
    /\ at[t].op = "none"
    /\ issued < MaxCalls
    /\ issued' = issued + 1
    /\ at' = [at EXCEPT ![t] = [NoOp EXCEPT !.op = op, !.key = key, !.value = value,
                                            !.bucket = getBucket(key)]]
    /\ UNCHANGED <<buckets, bucketCount, stats, clockNow, wallNow, last, written,
                   pc, calls, loads, mu>>

\* XCache.Len, Keys, GetAll, Purge: Keys and GetAll hold xc.mu for reading
EnterAggregate(t, op, checkExpired) ==
    /\ at[t].op = "none"
    /\ issued < MaxCalls
    /\ issued' = issued + 1
    /\ at' = [at EXCEPT ![t] = [NoOp EXCEPT !.op = op, !.checkExpired = checkExpired]]
    /\ mu' = IF op \in {"Keys", "GetAll"} THEN [mu EXCEPT !.xc = @ \cup {t}] ELSE mu
    /\ UNCHANGED <<buckets, bucketCount, stats, clockNow, wallNow, last, written,
                   pc, calls, loads>>

\* c.mu.Lock() / c.mu.RLock() of the shard the call is at
Lock(t) ==
    /\ canLock(t)
    /\ mu' = lock(mu, t, at[t].bucket, at[t].op \in writeOps)
    /\ at' = [at EXCEPT ![t].locked = TRUE]
    /\ UNCHANGED <<buckets, bucketCount, stats, clockNow, wallNow, last, written,
                   pc, calls, loads, issued>>

\* what the method does to its shard while it holds the lock
underLock(c, a) ==
    IF a.op = "Set" THEN LIRSSet(c, a.key, a.value, clockNow).c
    ELSE IF a.op = "Get" THEN LIRSGet(c, a.key, clockNow).c
    ELSE IF a.op = "Remove" THEN LIRSRemove(c, a.key).c
    ELSE IF a.op = "Purge" THEN LIRSPurge(c)
    ELSE beginCall(c)

\* what the call reports when it returns
returned(c, a) ==
    IF a.op = "Set"
    THEN Call("Set", a.key, a.value, NilValue, LIRSSet(c, a.key, a.value, clockNow).err, TRUE)
    ELSE IF a.op = "Get"
    THEN Call("Get", a.key, NilValue, LIRSGet(c, a.key, clockNow).value,
              LIRSGet(c, a.key, clockNow).err, LIRSGet(c, a.key, clockNow).err = ErrNil)
    ELSE IF a.op = "Peek"
    THEN Call("Peek", a.key, NilValue, LIRSPeek(c, a.key, clockNow).value,
              LIRSPeek(c, a.key, clockNow).err, LIRSPeek(c, a.key, clockNow).err = ErrNil)
    ELSE IF a.op = "Has"
    THEN Call("Has", a.key, NilValue, NilValue, ErrNil, LIRSHas(c, a.key, wallNow))
    ELSE IF a.op = "Remove"
    THEN Call("Remove", a.key, NilValue, NilValue, ErrNil, LIRSRemove(c, a.key).ok)
    ELSE IF a.op = "Len"
    THEN Call("Len", NilKey, NilValue,
              a.count + LIRSLen(c, a.checkExpired, wallNow), ErrNil, a.checkExpired)
    ELSE IF a.op = "Keys"
    THEN Call("Keys", NilKey, NilValue,
              Cardinality(a.keys \cup LIRSKeys(c, a.checkExpired, wallNow)),
              ErrNil, a.checkExpired)
    ELSE IF a.op = "GetAll"
    THEN Call("GetAll", NilKey, NilValue,
              Cardinality(a.all \cup LIRSGetALL(c, a.checkExpired, wallNow)),
              ErrNil, a.checkExpired)
    ELSE Call("Purge", NilKey, NilValue, NilValue, ErrNil, TRUE)

\* the deferred c.mu.Unlock() / c.mu.RUnlock(): the method's work is done, the
\* lock is released, and the call returns or goes on to the next shard
Unlock(t) ==
    /\ at[t].locked
    /\ LET a == at[t]
           b == a.bucket
           c == buckets[b]
           done == a.op \notin aggregateOps \/ b + 1 = bucketCount
           m == unlock(mu, t, b)
       IN /\ buckets' = [buckets EXCEPT ![b] = underLock(c, a)]
          /\ mu' = IF done THEN [m EXCEPT !.xc = @ \ {t}] ELSE m
          /\ at' = [at EXCEPT ![t] =
                       IF done THEN NoOp
                       ELSE [a EXCEPT !.bucket = b + 1, !.locked = FALSE,
                                      !.count = @ + LIRSLen(c, a.checkExpired, wallNow),
                                      !.keys = @ \cup LIRSKeys(c, a.checkExpired, wallNow),
                                      !.all = @ \cup LIRSGetALL(c, a.checkExpired, wallNow)]]
          /\ last' = IF done THEN returned(c, a) ELSE last
          /\ stats' = IF a.op = "Get" THEN countLookup(LIRSGet(c, a.key, clockNow).err)
                      ELSE stats
          /\ written' = IF a.op = "Set"
                        THEN [written EXCEPT ![a.key] = [value |-> a.value, deadline |-> NilTime]]
                        ELSE IF a.op = "Remove" THEN [written EXCEPT ![a.key] = NoWrite]
                        ELSE IF a.op = "Purge"
                        THEN [k \in AllKeys |->
                                IF k \in DOMAIN c.items THEN NoWrite ELSE written[k]]
                        ELSE written
    /\ UNCHANGED <<bucketCount, clockNow, wallNow, pc, calls, loads, issued>>

\* ------------------------------------------- a load taken lock by lock
\* nobody holds c.mu of shard b
shardFree(b) == mu.shard[b].w = {} /\ mu.shard[b].r = {}

\* LIRSCache.Get with a loader: the deferred Unlock of getValue ends the
\* lookup; a hit returns, a miss goes on to getWithLoader
LookupUnlock(t) ==
    /\ at[t].locked
    /\ at[t].op = "Get"
    /\ LET a == at[t]
           b == a.bucket
           r == get(beginCall(buckets[b]), a.key, FALSE, clockNow)
       IN /\ buckets' = [buckets EXCEPT ![b] = r.c]
          /\ mu' = unlock(mu, t, b)
          /\ at' = [at EXCEPT ![t] = NoOp]
          /\ IF r.err = ErrKeyNotFoundError /\ buckets[b].loaderExpireFunc
             THEN /\ pc' = [pc EXCEPT ![t] = [state |-> "miss", key |-> a.key,
                                              isWait |-> TRUE,
                                              value |-> NilValue, err |-> ErrNil]]
                  /\ UNCHANGED <<stats, last>>
             ELSE returnTo(t, a.key, TRUE, r.value, r.err)
    /\ UNCHANGED <<calls, loads, issued, bucketCount, clockNow, wallNow, written>>

\* the call group's second lookup takes and releases c.mu inside getValue
DoUnlocked(t) ==
    /\ pc[t].state = "miss"
    /\ shardFree(getBucket(pc[t].key))
    /\ Do(t)

\* the loader of the call that thread t started returns a value
LoaderYields(t, v) ==
    /\ pc[t].state = "load"
    /\ pc' = [pc EXCEPT ![t].state = "loaded", ![t].value = v]
    /\ UNCHANGED <<buckets, bucketCount, stats, clockNow, wallNow, last, written,
                   calls, loads, issued, mu, at>>

\* the loader returns an error: the callback returns it without taking c.mu
LoaderFails(t) ==
    /\ pc[t].state = "load"
    /\ LoaderReturn(pc[t].key, NilValue, NilDuration, ErrLoader)

\* the callback's c.mu.Lock()
CallbackLock(t) ==
    /\ pc[t].state = "loaded"
    /\ shardFree(getBucket(pc[t].key))
    /\ mu' = lock(mu, t, getBucket(pc[t].key), TRUE)
    /\ pc' = [pc EXCEPT ![t].state = "insert"]
    /\ UNCHANGED <<buckets, bucketCount, stats, clockNow, wallNow, last, written,
                   calls, loads, issued, at>>

\* the callback's set and its deferred c.mu.Unlock(); the call is completed
\* and its callers are woken
CallbackUnlock(t) ==
    /\ pc[t].state = "insert"
    /\ LET key == pc[t].key
           b == getBucket(key)
           r == loaderCallback(buckets[b], key, pc[t].value, NilDuration, ErrNil, clockNow)
       IN /\ buckets' = [buckets EXCEPT ![b] = r.c]
          /\ mu' = unlock(mu, t, b)
          /\ pc' = [u \in Threads |->
                      IF pc[u].key = key /\ pc[u].state \in {"insert", "wait"}
                      THEN [pc[u] EXCEPT !.state = "wake", !.value = r.value, !.err = r.err]
                      ELSE pc[u]]
          /\ loads' = [loads EXCEPT ![key].running = @ - 1,
                                    ![key].failed = @ \/ r.err # ErrNil,
                                    ![key].value = r.value]
          /\ calls' = calls \ {key}
    /\ UNCHANGED <<at, issued, bucketCount, stats, clockNow, wallNow, last, written>>

\* ------------------------------------- Peek with a deserializeFunc, lock by lock
\* Peek found a resident, unexpired entry and the cache has a deserializeFunc
peekDeserializes(c, key) ==
    /\ key \in DOMAIN c.items
    /\ ~IsExpired(c.items[key], clockNow)
    /\ c.items[key].isResident
    /\ c.deserializeFunc # HookNil

\* LIRSCache.Peek under its read lock. With a value to deserialize it calls
\* c.mu.RUnlock(), defers c.mu.RLock() and runs deserializeFunc; the deferred
\* RLock is the call's next step. Otherwise the deferred RUnlock ends the call.
PeekUnlock(t) ==
    /\ at[t].locked
    /\ at[t].op = "Peek"
    /\ LET a == at[t]
           b == a.bucket
           c == buckets[b]
           r == LIRSPeek(c, a.key, clockNow)
       IN /\ buckets' = [buckets EXCEPT ![b] = r.c]
          /\ mu' = unlock(mu, t, b)
          /\ IF peekDeserializes(c, a.key)
             THEN /\ at' = [at EXCEPT ![t] = [a EXCEPT !.op = "PeekDone",
                                                       !.locked = FALSE,
                                                       !.value = r.value]]
                  /\ UNCHANGED last
             ELSE /\ at' = [at EXCEPT ![t] = NoOp]
                  /\ last' = Call("Peek", a.key, NilValue, r.value, r.err, r.err = ErrNil)
    /\ UNCHANGED <<bucketCount, stats, clockNow, wallNow, written,
                   pc, calls, loads, issued>>

\* the deferred calls of Peek after deserializeFunc has returned: the RLock
\* was taken by Lock(t); the first deferred c.mu.RUnlock() ends the call
PeekReturn(t) ==
    /\ at[t].locked
    /\ at[t].op = "PeekDone"
    /\ LET a == at[t]
           b == a.bucket
           fails == deserializeFails(buckets[b], a.key)
       IN /\ mu' = unlock(mu, t, b)
          /\ at' = [at EXCEPT ![t] = NoOp]
          /\ last' = Call("Peek", a.key, NilValue,
                          IF fails THEN NilValue ELSE a.value,
                          IF fails THEN ErrDeserialize ELSE ErrNil, ~fails)
    /\ UNCHANGED <<buckets, bucketCount, stats, clockNow, wallNow, written,
                   pc, calls, loads, issued>>

\* --------------------------------------------------------- specifications
Build(n, count, exp) ==
    /\ bucketCount = count
    /\ buckets = [b \in 0..(count - 1) |-> newLIRSCache(n, exp)]
    /\ stats = [hitCount |-> 0, missCount |-> 0]
    /\ clockNow = 0
    /\ wallNow = 0
    /\ last = Call("Build", NilKey, NilValue, NilValue, ErrNil, TRUE)
    /\ written = [k \in AllKeys |-> NoWrite]
    /\ pc = [t \in Threads |-> Idle]
    /\ calls = {}
    /\ loads = [k \in AllKeys |-> NoLoad]
    /\ issued = 0
    /\ mu = [xc |-> {}, shard |-> [b \in 0..(count - 1) |-> Unlocked]]
    /\ at = [t \in Threads |-> NoOp]

BuildWith(n, count, exp, ser, des, loader) ==
    /\ bucketCount = count
    /\ buckets = [b \in 0..(count - 1) |->
                     [newLIRSCache(n, exp) EXCEPT !.serializeFunc = ser,
                                                  !.deserializeFunc = des,
                                                  !.loaderExpireFunc = loader]]
    /\ stats = [hitCount |-> 0, missCount |-> 0]
    /\ clockNow = 0
    /\ wallNow = 0
    /\ last = Call("Build", NilKey, NilValue, NilValue, ErrNil, TRUE)
    /\ written = [k \in AllKeys |-> NoWrite]
    /\ pc = [t \in Threads |-> Idle]
    /\ calls = {}
    /\ loads = [k \in AllKeys |-> NoLoad]
    /\ issued = 0
    /\ mu = [xc |-> {}, shard |-> [b \in 0..(count - 1) |-> Unlocked]]
    /\ at = [t \in Threads |-> NoOp]

\* XCacheBuilder.Build on any bucket size: a size <= 0 panics before anything
\* is allocated, and the caller is left without a cache
BuildChecked(n, count, exp) ==
    IF n <= 0
    THEN /\ bucketCount = 0
         /\ buckets = <<>>
         /\ stats = [hitCount |-> 0, missCount |-> 0]
         /\ clockNow = 0
         /\ wallNow = 0
         /\ last = Call("Build", NilKey, NilValue, NilValue, ErrPanic, FALSE)
         /\ written = [k \in AllKeys |-> NoWrite]
         /\ pc = [t \in Threads |-> Idle]
         /\ calls = {}
         /\ loads = [k \in AllKeys |-> NoLoad]
         /\ issued = 0
         /\ mu = [xc |-> {}, shard |-> <<>>]
         /\ at = [t \in Threads |-> NoOp]
    ELSE Build(n, count, exp)

Init == \E n \in Sizes : Build(n, 1, NilDuration)

Next ==
    \/ \E k \in Keys, v \in Values : Set(k, v)
    \/ \E k \in Keys : Get(k)
    \/ \E k \in Keys : GetIFPresent(k)
    \/ \E k \in Keys : Peek(k)
    \/ \E k \in Keys : Has(k)
    \/ \E k \in Keys : Remove(k)
    \/ Purge

Spec == Init /\ [][Next]_vars

\* a scan over more keys than the cache holds
InitScan == \E n \in SizesScan : Build(n, 1, NilDuration)

NextScan ==
    \/ \E k \in KeysScan, v \in Values : Set(k, v)
    \/ \E k \in KeysScan : Get(k)

SpecScan == InitScan /\ [][NextScan]_vars

\* a working set that fits: only keys 1..size are ever used, nothing is removed
NextFit ==
    \/ \E k \in Keys, v \in ValuesE : k <= buckets[0].size /\ Set(k, v)
    \/ \E k \in Keys : k <= buckets[0].size /\ Get(k)

SpecFit == Init /\ [][NextFit]_vars

InitExpire == \E n \in SizesE : Build(n, 1, NilDuration)

\* distinguishable values under eviction and removal
NextEvict ==
    \/ \E k \in Keys, v \in ValuesE : Set(k, v)
    \/ \E k \in Keys : Get(k)
    \/ \E k \in Keys : Remove(k)

SpecEvict == InitExpire /\ [][NextEvict]_vars

\* entries with a time to live, under the real clock
NextExpire ==
    \/ \E k \in KeysE, v \in Values : Set(k, v)
    \/ \E k \in KeysE, v \in ValuesE, d \in Durations : SetWithExpire(k, v, d)
    \/ \E k \in KeysE : Get(k)
    \/ Tick

SpecExpire == InitExpire /\ [][NextExpire]_vars

\* every access path over entries that may have expired
NextLazy ==
    \/ \E k \in KeysE, v \in Values, d \in Durations : SetWithExpire(k, v, d)
    \/ \E k \in KeysE : Get(k)
    \/ \E k \in KeysE : GetIFPresent(k)
    \/ \E k \in KeysE : Peek(k)
    \/ \E k \in KeysE : Has(k)
    \/ \E e \in BOOLEAN : XCacheLen(e)
    \/ Tick

SpecLazy == InitExpire /\ [][NextLazy]_vars

\* several shards of capacity one or two
InitShard == \E n \in SizesE, count \in BucketCounts : Build(n, count, NilDuration)

NextShard ==
    \/ \E k \in KeysE, v \in Values : Set(k, v)
    \/ \E k \in KeysE, v \in Values : SetWithExpire(k, v, MaxDuration)
    \/ \E k \in KeysE : Get(k)
    \/ \E k \in KeysE : GetIFPresent(k)
    \/ \E k \in KeysE : Peek(k)
    \/ \E k \in KeysE : Has(k)
    \/ \E k \in KeysE : Remove(k)

SpecShard == InitShard /\ [][NextShard]_vars

\* serialize and deserialize hooks that fail for some keys
InitHooks ==
    \E n \in SizesE, ser \in {HookNil, HookFails}, des \in {HookNil, HookFails} :
        BuildWith(n, 1, NilDuration, ser, des, FALSE)

\* the lookups the engine of key's shard has counted
engineLookups(key) ==
    buckets[getBucket(key)].hitCount + buckets[getBucket(key)].missCount

NextHooks ==
    \/ \E k \in KeysE, v \in Values : Set(k, v)
    \/ \E k \in KeysE, v \in Values : SetWithExpire(k, v, MaxDuration)
    \/ \E k \in KeysE : engineLookups(k) < MaxLookups /\ Get(k)
    \/ \E k \in KeysE : engineLookups(k) < MaxLookups /\ GetIFPresent(k)
    \/ \E k \in KeysE : Peek(k)

SpecHooks == InitHooks /\ [][NextHooks]_vars

\* a cache with a loader, looked up by several threads at once
InitLoad ==
    \E n \in SizesE : BuildWith(n, 1, NilDuration, HookNil, HookNil, TRUE)

NextLoad ==
    \/ \E t \in Threads, k \in KeysE : GetStart(t, k, TRUE)
    \/ \E t \in Threads : Do(t)
    \/ \E k \in KeysE, v \in ValuesE : LoaderReturn(k, v, NilDuration, ErrNil)
    \/ \E k \in KeysE : LoaderReturn(k, NilValue, NilDuration, ErrLoader)
    \/ \E t \in Threads : Return(t)

SpecLoad == InitLoad /\ [][NextLoad]_vars

\* lookups that do not wait for the loader, next to writes
NextAsync ==
    \/ \E k \in KeysE, v \in Values : Set(k, v)
    \/ \E t \in AsyncThreads, k \in KeysE : issued < MaxCallsAsync /\ GetStart(t, k, TRUE)
    \/ \E t \in AsyncThreads, k \in KeysE : issued < MaxCallsAsync /\ GetStart(t, k, FALSE)
    \/ \E t \in AsyncThreads : Do(t)
    \/ \E k \in KeysE, v \in Values : LoaderReturn(k, v, NilDuration, ErrNil)
    \/ \E k \in KeysE : LoaderReturn(k, NilValue, NilDuration, ErrLoader)
    \/ \E t \in AsyncThreads : Return(t)

SpecAsync == InitLoad /\ [][NextAsync]_vars

\* a builder given any bucket size, and calls on the cache it produced
InitBuild == \E n \in BuildSizes : BuildChecked(n, 1, NilDuration)

NextBuild ==
    \/ \E k \in KeysE, v \in ValuesE : bucketCount > 0 /\ Set(k, v)
    \/ \E k \in KeysE : bucketCount > 0 /\ Get(k)
    \/ \E k \in KeysE : bucketCount > 0 /\ Peek(k)

SpecBuild == InitBuild /\ [][NextBuild]_vars

\* calls of several threads on a sharded cache, taken lock by lock
InitLocks ==
    \E n \in SizesE, count \in BucketCounts : Build(n, count, NilDuration)

NextLocks ==
    \/ \E t \in LockThreads, k \in KeysE, v \in Values :
            issued < MaxCallsLocks /\ EnterPoint(t, "Set", k, v)
    \/ \E t \in LockThreads, k \in KeysE, op \in {"Get", "Peek", "Has", "Remove"} :
            issued < MaxCallsLocks /\ EnterPoint(t, op, k, NilValue)
    \/ \E t \in LockThreads, op \in aggregateOps :
            issued < MaxCallsLocks /\ EnterAggregate(t, op, FALSE)
    \/ \E t \in LockThreads : Lock(t)
    \/ \E t \in LockThreads : Unlock(t)

SpecLocks == InitLocks /\ [][NextLocks]_vars

\* a cache built with an injected clock that is not the wall clock
NextClock ==
    \/ \E k \in KeysE, v \in Values, d \in Durations : SetWithExpire(k, v, d)
    \/ \E k \in KeysE : Get(k)
    \/ \E k \in KeysE : Peek(k)
    \/ \E k \in KeysE : Has(k)
    \/ \E e \in BOOLEAN : XCacheLen(e)
    \/ ClockAdvance
    \/ WallAdvance

SpecClock == InitExpire /\ [][NextClock]_vars

\* lookups that load, next to writes and reads of the same shard, lock by lock
NextLoadLocks ==
    \/ \E t \in LockThreads, k \in KeysE :
            /\ issued < MaxCallsLocks
            /\ pc[t].state = "idle"
            /\ EnterPoint(t, "Get", k, NilValue)
    \/ \E t \in LockThreads, k \in KeysE, v \in Values :
            /\ issued < MaxCallsLocks
            /\ pc[t].state = "idle"
            /\ EnterPoint(t, "Set", k, v)
    \/ \E t \in LockThreads, k \in KeysE :
            /\ issued < MaxCallsLocks
            /\ pc[t].state = "idle"
            /\ EnterPoint(t, "Peek", k, NilValue)
    \/ \E t \in LockThreads : Lock(t)
    \/ \E t \in LockThreads : at[t].op # "Get" /\ Unlock(t)
    \/ \E t \in LockThreads : LookupUnlock(t)
    \/ \E t \in LockThreads : DoUnlocked(t)
    \/ \E t \in LockThreads, v \in ValuesE : LoaderYields(t, v)
    \/ \E t \in LockThreads : LoaderFails(t)
    \/ \E t \in LockThreads : CallbackLock(t)
    \/ \E t \in LockThreads : CallbackUnlock(t)
    \/ \E t \in LockThreads : Return(t)

SpecLoadLocks == InitLoad /\ [][NextLoadLocks]_vars

\* Peek of a cache with a deserializeFunc next to Set and Get, lock by lock
InitPeekLocks ==
    \E n \in SizesE : BuildWith(n, 1, NilDuration, HookNil, HookFails, FALSE)

NextPeekLocks ==
    \/ \E t \in LockThreads, k \in KeysE, v \in Values :
            issued < MaxCallsLocks /\ EnterPoint(t, "Set", k, v)
    \/ \E t \in LockThreads, k \in KeysE, op \in {"Get", "Peek"} :
            issued < MaxCallsLocks /\ EnterPoint(t, op, k, NilValue)
    \/ \E t \in LockThreads : Lock(t)
    \/ \E t \in LockThreads : at[t].op \in {"Set", "Get"} /\ Unlock(t)
    \/ \E t \in LockThreads : PeekUnlock(t)
    \/ \E t \in LockThreads : PeekReturn(t)

SpecPeekLocks == InitPeekLocks /\ [][NextPeekLocks]_vars

\* ------------------------------------------------------------------ claims
bucketOf(key) == buckets[getBucket(key)]
residentKeys(c) == {k \in DOMAIN c.items : c.items[k].isResident}
policyState(c) ==
    [items |-> c.items, stackS |-> c.stackS, queueQ |-> c.queueQ, lirCount |-> c.lirCount]
occurrences(ev, k) == Cardinality({i \in 1..Len(ev) : ev[i][1] = k})
lookupOps == {"Get", "GetIFPresent"}
setOps == {"Set", "SetWithExpire"}

\* C1: after every sequence of calls the number of resident entries, Len(false),
\* is at most the capacity.
C1_ResidentWithinCapacity ==
    \A b \in DOMAIN buckets : LIRSLen(buckets[b], FALSE, wallNow) <= buckets[b].size

\* C2: when only keys of a working set that fits are Set and read, a Get of a key
\* that has been Set returns the value most recently Set for it.
C2_FitGetReturnsWritten ==
    (last.op = "Get" /\ written[last.key] # NoWrite)
        => (last.err = ErrNil /\ last.out = written[last.key].value)

\* C3: right after Set(k, v) returned without error, Peek(k) returns v.
C3_SetThenPeek ==
    (last.op = "Set" /\ last.err = ErrNil)
        => LET r == LIRSPeek(bucketOf(last.key), last.key, clockNow)
           IN r.err = ErrNil /\ r.value = last.value

\* C4: Peek leaves the key map, stack S, queue Q, the flags, the expirations and
\* lirCount as they were, so the next Set or Get does exactly what it would have
\* done without the Peek.
C4_PeekKeepsPolicy ==
    [][\A k \in AllKeys : Peek(k) =>
          \A b \in DOMAIN buckets :
              /\ policyState(buckets'[b]) = policyState(buckets[b])
              /\ \A k2 \in AllKeys :
                    /\ \A v \in AllValues :
                          LIRSSet(buckets'[b], k2, v, clockNow)
                            = LIRSSet(buckets[b], k2, v, clockNow)
                    /\ LIRSGet(buckets'[b], k2, clockNow)
                         = LIRSGet(buckets[b], k2, clockNow)]_vars

C4_Witness ==
    /\ last.op = "Peek"
    /\ last.err = ErrNil
    /\ getResidentCount(bucketOf(last.key)) = bucketOf(last.key).size
    /\ Len(bucketOf(last.key).queueQ) > 0
    /\ bucketOf(last.key).lirCount > 0

\* C5: Peek changes neither the front-end's nor the engine's hit and miss
\* counters, for a present and for an absent key, and a repeated Peek returns
\* the same result.
C5_PeekKeepsCounters ==
    [][\A k \in AllKeys : Peek(k) =>
          /\ stats' = stats
          /\ \A b \in DOMAIN buckets :
                /\ buckets'[b].hitCount = buckets[b].hitCount
                /\ buckets'[b].missCount = buckets[b].missCount
          /\ LET again == LIRSPeek(buckets'[getBucket(k)], k, clockNow')
             IN again.value = last'.out /\ again.err = last'.err]_vars

C5_Witness ==
    /\ last.op = "Peek"
    /\ last.err = ErrKeyNotFoundError
    /\ stats.hitCount > 0
    /\ stats.missCount > 0

\* C6: a key that is not resident (removed, evicted or never stored) is answered
\* KeyNotFound by Get and GetIFPresent, and stays non-resident through every call
\* that is not a Set or SetWithExpire of that key.
goneIn(bs, k) ==
    LET c == bs[getBucket(k)]
    IN k \notin DOMAIN c.items \/ ~c.items[k].isResident

C6_GoneUntilSet ==
    [][\A k \in AllKeys : goneIn(buckets, k) =>
          /\ (last'.op \in lookupOps /\ last'.key = k) => last'.err = ErrKeyNotFoundError
          /\ ~(last'.op \in setOps /\ last'.key = k) => goneIn(buckets', k)]_vars

C6_Witness ==
    /\ last.op = "GetIFPresent"
    /\ last.err = ErrKeyNotFoundError
    /\ last.key \in DOMAIN bucketOf(last.key).items
    /\ ~bucketOf(last.key).items[last.key].isResident

\* C7: after SetWithExpire(k, v, d) at time t and no later Set or SetWithExpire of
\* k, a Get(k) at a time after t+d returns KeyNotFound, and a Get(k) at a time up
\* to t+d returns v while k is resident.
C7_ExpirationLaw ==
    \A k \in AllKeys :
        written[k].deadline # NilTime =>
            LET r == LIRSGet(bucketOf(k), k, clockNow)
            IN /\ clockNow > written[k].deadline => r.err = ErrKeyNotFoundError
               /\ (clockNow <= written[k].deadline
                     /\ k \in residentKeys(bucketOf(k)))
                    => (r.err = ErrNil /\ r.value = written[k].value)

C7_Witness ==
    /\ last.op = "Get"
    /\ last.err = ErrNil
    /\ written[last.key].deadline = clockNow
    /\ clockNow > 0
    /\ last.out = written[last.key].value

\* C8: a Get that finds its key expired deletes the entry from the key map, from
\* stack S and from queue Q, takes it off lirCount if it was LIR, and returns
\* KeyNotFound.
C8_ExpiredGetUnlinks ==
    [][\A k \in AllKeys :
          LET c == buckets[getBucket(k)]
              c2 == buckets'[getBucket(k)]
          IN (/\ last'.op \in lookupOps
              /\ last'.key = k
              /\ k \in DOMAIN c.items
              /\ IsExpired(c.items[k], clockNow))
             => /\ k \notin DOMAIN c2.items
                /\ ~inStack(c2, k)
                /\ ~inQueue(c2, k)
                /\ c2.lirCount = c.lirCount - (IF c.items[k].isLIR THEN 1 ELSE 0)
                /\ last'.err = ErrKeyNotFoundError]_vars

C8_Witness ==
    /\ last.op = "Get"
    /\ last.err = ErrKeyNotFoundError
    /\ written[last.key].deadline # NilTime
    /\ clockNow > written[last.key].deadline
    /\ Len(bucketOf(last.key).evicted) = 1
    /\ last.key \notin DOMAIN bucketOf(last.key).items

\* C9: an access (Get, GetIFPresent, Has, Len(true), Peek) that drops an
\* entry it found expired does not invoke evicted_fn.
C9_LazyExpirationSilent ==
    [][\A k \in AllKeys :
          LET c == buckets[getBucket(k)]
              c2 == buckets'[getBucket(k)]
          IN (/\ last'.op \in {"Get", "GetIFPresent", "Has", "Len", "Peek"}
              /\ k \in DOMAIN c.items
              /\ IsExpired(c.items[k], clockNow)
              /\ k \notin DOMAIN c2.items)
             => occurrences(c2.evicted, k) = 0]_vars

\* C10: in every call but Purge, evicted_fn is invoked exactly once for each entry
\* that was resident and no longer is, with that entry's value, and never for an
\* entry that was not resident.
C10_EvictedOncePerLoss ==
    [][last'.op # "Purge" =>
          \A b \in DOMAIN buckets :
              LET c == buckets[b]
                  c2 == buckets'[b]
                  ev == c2.evicted
              IN /\ \A i \in 1..Len(ev) :
                        /\ ev[i][1] \in residentKeys(c)
                        /\ ev[i][1] \notin residentKeys(c2)
                        /\ ev[i][2] = IF ev[i][1] \in DOMAIN c2.items
                                      THEN c2.items[ev[i][1]].value
                                      ELSE c.items[ev[i][1]].value
                 /\ \A k \in residentKeys(c) \ residentKeys(c2) :
                        occurrences(ev, k) = 1
                 /\ \A k \in AllKeys : occurrences(ev, k) <= 1]_vars

C10_Witness ==
    /\ last.op = "Remove"
    /\ last.ok
    /\ bucketOf(last.key).evicted = <<>>
    /\ getResidentCount(bucketOf(last.key)) > 0

\* C14: a point operation on key k changes only the shard with index
\* hash64(k) mod B; the index lies in 0..B-1, is what GetBucketIndex reports
\* before and after the call, and every other shard keeps contents and counters.
pointOps == {"Set", "SetWithExpire", "Get", "GetIFPresent", "Peek", "Remove", "Has"}

C14_PointOpsTouchOneShard ==
    [][\A k \in AllKeys :
          (last'.op \in pointOps /\ last'.key = k) =>
              LET i == mod64(xxhashSum64[k], bucketCount)
              IN /\ i \in 0..(bucketCount - 1)
                 /\ GetBucketIndex(k) = i
                 /\ GetBucketIndex(k)' = i
                 /\ DOMAIN buckets' = DOMAIN buckets
                 /\ \A b \in DOMAIN buckets : b # i => buckets'[b] = buckets[b]
                 /\ last'.op = "Set" =>
                       buckets'[i] = LIRSSet(buckets[i], k, last'.value, clockNow).c
                 /\ last'.op = "Remove" =>
                       buckets'[i] = LIRSRemove(buckets[i], k).c]_vars

C14_Witness ==
    /\ last.op = "Set"
    /\ bucketCount > 1
    /\ getBucket(last.key) # 0
    /\ getResidentCount(buckets[0]) > 0
    /\ getResidentCount(bucketOf(last.key)) > 0

C18_PurgeVisitsResidents ==
    [][last'.op = "Purge" =>
          \A b \in DOMAIN buckets :
              LET c == buckets[b]
                  c2 == buckets'[b]
              IN /\ DOMAIN c2.purged
                       = {<<k, c.items[k].value>> : k \in residentKeys(c)}
                 /\ \A p \in DOMAIN c2.purged : c2.purged[p] = 1
                 /\ DOMAIN c2.items = {}
                 /\ c2.stackS = <<>>
                 /\ c2.queueQ = <<>>
                 /\ c2.lirCount = 0
                 /\ LIRSLen(c2, FALSE, wallNow') = 0]_vars

C18_Witness ==
    /\ last.op = "Purge"
    /\ Cardinality(DOMAIN buckets[0].purged) >= 2
    /\ DOMAIN buckets[0].items = {}

\* C20: Remove(k) returns true exactly when k was resident just before the call
\* (false for a key the policy evicted and nobody re-inserted), and afterwards k
\* is in neither the key map, S nor Q.
C20_RemoveReportsResident ==
    [][\A k \in AllKeys :
          (last'.op = "Remove" /\ last'.key = k) =>
              LET c == buckets[getBucket(k)]
                  c2 == buckets'[getBucket(k)]
              IN /\ last'.ok = (k \in residentKeys(c))
                 /\ k \notin DOMAIN c2.items
                 /\ ~inStack(c2, k)
                 /\ ~inQueue(c2, k)]_vars

\* C19: a call that fails with the error of serialize_fn (Set, SetWithExpire)
\* or of deserialize_fn (Get, GetIFPresent, Peek) leaves the key map, S, Q, the
\* flags, lirCount and the hit and miss counters as they were.
C19_HookErrorsKeepState ==
    [][last'.err \in {ErrSerialize, ErrDeserialize} =>
          /\ stats' = stats
          /\ \A b \in DOMAIN buckets :
                /\ policyState(buckets'[b]) = policyState(buckets[b])
                /\ buckets'[b].hitCount = buckets[b].hitCount
                /\ buckets'[b].missCount = buckets[b].missCount]_vars


\* a key whose lookups all began before any load of it completed, overlapped
\* no lookup of another key, met no loader error, and that was never written
coldKey(k) == loads[k].cold /\ ~loads[k].failed /\ written[k] = NoWrite

\* C11: single-flight. For every key at most one invocation of the loader is in
\* progress at any instant; the threads that call Get(k) at once on a cold key
\* cause exactly one invocation of the loader and every one of them receives
\* the value that invocation returned.
C11_SingleFlight ==
    \A k \in AllKeys :
        /\ loads[k].running <= 1
        /\ coldKey(k) =>
              /\ loads[k].total <= 1
              /\ (last.op = "Get" /\ last.key = k)
                    => (last.err = ErrNil /\ last.out = loads[k].value)

\* C12: when the loader returns an error, every caller waiting on that load
\* receives that error, and the load inserts nothing: neither the step that
\* starts a load nor the step that completes it with an error changes the key
\* map, S, Q, the residency flags or lirCount.
C12_FailedLoadKeepsState ==
    [][/\ \A k \in AllKeys :
            LoaderReturn(k, NilValue, NilDuration, ErrLoader) =>
                /\ \A b \in DOMAIN buckets : policyState(buckets'[b]) = policyState(buckets[b])
                /\ \A t \in Threads :
                      (pc[t].key = k /\ pc[t].state \in {"load", "wait"})
                          => (pc'[t].state = "wake" /\ pc'[t].err = ErrLoader)
       /\ (calls' \ calls # {})
            => \A b \in DOMAIN buckets : policyState(buckets'[b]) = policyState(buckets[b])
       /\ \A t \in Threads :
            /\ (pc[t].state = "wake" /\ pc[t].err = ErrLoader /\ pc'[t].state = "idle")
                  => (last'.err = ErrLoader /\ last'.key = pc[t].key /\ ~last'.ok
                      /\ buckets' = buckets)]_vars

\* C12 witness: a failed load of a cache that holds an entry has answered one
\* of its callers with the error while another is about to receive it
C12_Witness ==
    /\ last.op = "Get" /\ last.err = ErrLoader
    /\ \E t \in Threads : pc[t].state = "wake" /\ pc[t].err = ErrLoader /\ pc[t].key = last.key
    /\ \E b \in DOMAIN buckets : residentKeys(buckets[b]) # {}

\* C13: with a loader configured, GetIFPresent(k) on a non-resident key returns
\* KeyNotFound without waiting for the loader (it never joins or runs a call),
\* and when the load it started completes with the loader's value, k is
\* resident with that value.
C13_AsyncLoadMakesResident ==
    [][/\ \A t \in Threads :
            /\ ~pc'[t].isWait => pc'[t].state \in {"idle", "miss"}
            /\ (pc[t].state = "miss" /\ ~pc[t].isWait /\ pc'[t].state = "idle"
                 /\ pc[t].key \notin residentKeys(bucketOf(pc[t].key)))
                  => (last'.op = "GetIFPresent" /\ last'.err = ErrKeyNotFoundError)
       /\ \A k \in AllKeys, v \in AllValues :
            (LoaderReturn(k, v, NilDuration, ErrNil)
             /\ \A t \in Threads : ~(pc[t].state = "load" /\ pc[t].key = k)) =>
                /\ k \in residentKeys(buckets'[getBucket(k)])
                /\ buckets'[getBucket(k)].items[k].value = v]_vars

\* C15: at the sharded layer a Get that found nothing resident and was resolved
\* by a successful loader call is counted as a miss and does not increment
\* hit_count.
C15_LoadedGetCountsAsMiss ==
    [][\A t \in Threads :
          (pc[t].state = "wake" /\ pc[t].err = ErrNil /\ pc'[t].state = "idle")
              => /\ stats'.hitCount = stats.hitCount
                 /\ stats'.missCount = stats.missCount + 1]_vars

\* the key has a resident entry whose expiration has not passed
liveIn(c, key, now) ==
    /\ key \in DOMAIN c.items
    /\ c.items[key].isResident
    /\ ~IsExpired(c.items[key], now)

\* C16: in a shard engine every Get/GetIFPresent call increments exactly one of
\* the engine's hit and miss counters, by one: the hit counter iff the key was
\* resident and not expired at the lookup. The later steps of a call that went
\* to the loader count nothing, so a Get satisfied by the loader has
\* incremented the miss counter once and the hit counter not at all.
C16_EngineCountsEachLookupOnce ==
    [][/\ \A k \in AllKeys :
            ((\E t \in Threads, w \in BOOLEAN : GetStart(t, k, w)) \/ Get(k) \/ GetIFPresent(k))
                => LET hit == liveIn(bucketOf(k), k, clockNow)
                       c == bucketOf(k)
                       d == buckets'[getBucket(k)]
                   IN /\ d.hitCount = c.hitCount + (IF hit THEN 1 ELSE 0)
                      /\ d.missCount = c.missCount + (IF hit THEN 0 ELSE 1)
                      /\ \A b \in DOMAIN buckets \ {getBucket(k)} :
                            /\ buckets'[b].hitCount = buckets[b].hitCount
                            /\ buckets'[b].missCount = buckets[b].missCount
       /\ ((\E t \in Threads : Do(t) \/ Return(t))
           \/ (\E k \in AllKeys, v \in AllValues : LoaderReturn(k, v, NilDuration, ErrNil))
           \/ (\E k \in AllKeys : LoaderReturn(k, NilValue, NilDuration, ErrLoader)))
              => \A b \in DOMAIN buckets :
                    /\ buckets'[b].hitCount = buckets[b].hitCount
                    /\ buckets'[b].missCount = buckets[b].missCount]_vars

\* C16 witness: a Get satisfied by the loader has returned, after another
\* caller's second lookup found the loaded entry; the engine has counted two
\* misses and no hit
C16_Witness ==
    /\ last.op = "Get" /\ last.err = ErrNil
    /\ loads[last.key].total = 1
    /\ issued = 2
    /\ \A t \in Threads : pc[t].state = "idle"
    /\ bucketOf(last.key).missCount = 2
    /\ bucketOf(last.key).hitCount = 0

\* C21: in the sharded cache no thread ever holds two shard locks at once: a
\* thread that is about to take a shard lock holds none, a thread inside a
\* shard holds that shard's lock only, and whenever some call is under way
\* some thread can take its next step, so point and aggregate calls cannot
\* deadlock.
C21_OneShardLockAtATime ==
    /\ \A t \in Threads :
          /\ Cardinality(shardsHeld(t)) <= 1
          /\ (at[t].op # "none" /\ ~at[t].locked) => shardsHeld(t) = {}
          /\ at[t].locked => shardsHeld(t) = {at[t].bucket}
          /\ at[t].op = "none" => (shardsHeld(t) = {} /\ t \notin mu.xc)
    /\ (\E t \in Threads : at[t].op # "none")
          => \E t \in Threads : at[t].locked \/ canLock(t)

\* C21 witness: an aggregate call has left its first shard and holds the lock
\* of a later one while a point call of another thread holds the first shard's
C21_Witness ==
    \E t, u \in Threads :
        /\ at[t].op \in aggregateOps /\ at[t].locked /\ at[t].bucket >= 1
        /\ at[u].op \in {"Set", "Get", "Peek", "Has", "Remove"}
        /\ at[u].locked /\ at[u].bucket = 0

\* the error the builder is to return for a capacity <= 0
ErrCapacityInvalid == "CapacityInvalid"

\* C22: building a cache with a non-SIMPLE policy and capacity N <= 0 fails at
\* construction time with a CapacityInvalid error result, and no cache is
\* produced: whenever there is no cache, Build has returned CapacityInvalid.
C22_BuildReturnsCapacityInvalid ==
    bucketCount = 0 =>
        /\ last.op = "Build" /\ last.err = ErrCapacityInvalid
        /\ DOMAIN buckets = {}

\* the keys of the LIR entries
lirKeys(c) == {k \in DOMAIN c.items : c.items[k].isLIR}

\* C23: in every reachable LIRS state between operations, if stack S is
\* non-empty and at least one LIR entry exists, the bottom entry of S is LIR.
C23_StackBottomIsLIR ==
    \A b \in DOMAIN buckets :
        (Len(buckets[b].stackS) > 0 /\ lirKeys(buckets[b]) # {})
            => buckets[b].items[getStackBottom(buckets[b])].isLIR

\* C24: in every reachable LIRS state between operations, the number of LIR
\* entries (lirCount) is at most maxLirCount.
C24_LirCountWithinMax ==
    \A b \in DOMAIN buckets :
        /\ buckets[b].lirCount <= buckets[b].maxLirCount
        /\ Cardinality(lirKeys(buckets[b])) <= buckets[b].maxLirCount

\* C25: in every reachable LIRS state between operations, the number of
\* resident HIR entries (the length of queue Q) is at most
\* maxHirCount = N - maxLirCount.
C25_QueueWithinMaxHir ==
    \A b \in DOMAIN buckets :
        /\ buckets[b].maxHirCount = buckets[b].size - buckets[b].maxLirCount
        /\ Len(buckets[b].queueQ) <= buckets[b].maxHirCount
        /\ Cardinality(residentKeys(buckets[b]) \ lirKeys(buckets[b]))
              <= buckets[b].maxHirCount

\* C30: every non-resident entry of the key map is present in stack S (an
\* entry pruned from the bottom of S leaves the key map too, so the map holds
\* only the resident entries and the non-resident entries of S).
C30_NonResidentInStack ==
    \A b \in DOMAIN buckets :
        \A k \in DOMAIN buckets[b].items :
            ~buckets[b].items[k].isResident => inStack(buckets[b], k)

\* the entry of key k in its shard is a resident HIR entry
residentHIR(k) ==
    /\ k \in DOMAIN bucketOf(k).items
    /\ bucketOf(k).items[k].isResident
    /\ ~bucketOf(k).items[k].isLIR

\* C26: after a Get that hits a resident HIR entry k that is present in stack
\* S, k is LIR, still resident, at the top of S and not in queue Q.
C26_HitInStackPromotes ==
    [][\A k \in AllKeys :
          (Get(k) /\ residentHIR(k) /\ inStack(bucketOf(k), k) /\ last'.err = ErrNil)
            => LET c == buckets'[getBucket(k)]
               IN /\ k \in DOMAIN c.items
                  /\ c.items[k].isLIR
                  /\ c.items[k].isResident
                  /\ Len(c.stackS) > 0
                  /\ Front(c.stackS) = k
                  /\ ~inQueue(c, k)]_vars

\* C27: after a hit (a Get, or a Set of an existing key) on a resident HIR
\* entry k that is not in stack S, k is at the tail of queue Q and at the top
\* of S.
C27_HitOutOfStackRequeues ==
    [][\A k \in AllKeys :
          (/\ residentHIR(k)
           /\ ~inStack(bucketOf(k), k)
           /\ \/ Get(k) /\ last'.err = ErrNil
              \/ \E v \in AllValues : Set(k, v))
            => LET c == buckets'[getBucket(k)]
               IN /\ Len(c.queueQ) > 0
                  /\ Back(c.queueQ) = k
                  /\ Len(c.stackS) > 0
                  /\ Front(c.stackS) = k]_vars

\* C28: a Set of a key absent from the key map creates a resident entry at the
\* top of stack S; the entry is LIR, with lirCount incremented, exactly when
\* lirCount < maxLirCount held before the call, and otherwise it is HIR and
\* appended at the tail of queue Q.
C28_NewEntryStatus ==
    [][\A k \in AllKeys, v \in AllValues :
          (Set(k, v) /\ k \notin DOMAIN bucketOf(k).items)
            => LET c == bucketOf(k)
                   d == buckets'[getBucket(k)]
               IN /\ k \in DOMAIN d.items
                  /\ d.items[k].isResident
                  /\ Len(d.stackS) > 0
                  /\ Front(d.stackS) = k
                  /\ IF c.lirCount < c.maxLirCount
                     THEN /\ d.items[k].isLIR
                          /\ d.lirCount = c.lirCount + 1
                          /\ ~inQueue(d, k)
                     ELSE /\ ~d.items[k].isLIR
                          /\ d.lirCount <= c.lirCount
                          /\ Len(d.queueQ) > 0
                          /\ Back(d.queueQ) = k]_vars

C28_Witness ==
    /\ last.op = "Set"
    /\ LET c == bucketOf(last.key)
       IN /\ last.key \in DOMAIN c.items
          /\ ~c.items[last.key].isLIR
          /\ c.items[last.key].isResident
          /\ Front(c.stackS) = last.key
          /\ Back(c.queueQ) = last.key
          /\ c.lirCount = c.maxLirCount
          /\ c.lirCount >= 1
          /\ Len(c.evicted) = 1
          /\ getResidentCount(c) = c.size

\* the entry that the eviction rule designates in cache c: the front of queue
\* Q if Q is non-empty, else the bottom of stack S
victim(c) == IF Len(c.queueQ) > 0 THEN Front(c.queueQ) ELSE getStackBottom(c)

\* C29: when a Set makes an entry resident while the resident count is already
\* N, exactly one resident entry is evicted: the front of Q if Q is non-empty,
\* the LIR entry at the bottom of S only if Q is empty. An entry evicted from
\* Q stays in the key map, and in S if it is there, as a non-resident HIR
\* entry, and no LIR entry is evicted while Q is non-empty.
C29_EvictsExactlyOne ==
    [][\A k \in AllKeys, v \in AllValues :
          (/\ Set(k, v)
           /\ k \notin residentKeys(bucketOf(k))
           /\ k \in residentKeys(buckets'[getBucket(k)])
           /\ getResidentCount(bucketOf(k)) = bucketOf(k).size)
            => LET c == bucketOf(k)
                   d == buckets'[getBucket(k)]
               IN /\ residentKeys(c) \ residentKeys(d) = {victim(c)}
                  /\ Len(c.queueQ) = 0 => c.items[victim(c)].isLIR
                  /\ Len(c.queueQ) > 0 =>
                        /\ victim(c) \in DOMAIN d.items
                        /\ ~d.items[victim(c)].isResident
                        /\ ~d.items[victim(c)].isLIR
                        /\ inStack(c, victim(c)) => inStack(d, victim(c))
                        /\ \A j \in lirKeys(c) \cap residentKeys(c) :
                              j \in residentKeys(d)]_vars

\* C31: Set(k, v) on a key tracked as a non-resident HIR entry that is still in
\* stack S makes k resident with value v, LIR, at the top of S and out of Q,
\* evicting one other resident entry first if the cache was full, so that the
\* resident count is at most N afterwards.
C31_SetRevivesGhost ==
    [][\A k \in AllKeys, v \in AllValues :
          (/\ Set(k, v)
           /\ k \in DOMAIN bucketOf(k).items
           /\ ~bucketOf(k).items[k].isResident
           /\ ~bucketOf(k).items[k].isLIR
           /\ inStack(bucketOf(k), k))
            => LET c == bucketOf(k)
                   d == buckets'[getBucket(k)]
                   lost == residentKeys(c) \ residentKeys(d)
               IN /\ k \in DOMAIN d.items
                  /\ d.items[k].isResident
                  /\ d.items[k].value = v
                  /\ d.items[k].isLIR
                  /\ Len(d.stackS) > 0
                  /\ Front(d.stackS) = k
                  /\ ~inQueue(d, k)
                  /\ IF getResidentCount(c) >= c.size
                     THEN Cardinality(lost) = 1
                     ELSE lost = {}
                  /\ getResidentCount(d) <= d.size]_vars

\* C32: in every reachable LIRS state between operations every LIR entry is
\* resident, so Has(k) is true for every non-expired LIR key, and a Get that
\* returned a hit for k leaves k resident.
C32_LIRIsResident ==
    /\ \A b \in DOMAIN buckets :
          \A k \in lirKeys(buckets[b]) :
              /\ buckets[b].items[k].isResident
              /\ ~IsExpired(buckets[b].items[k], wallNow)
                    => has(buckets[b], k, wallNow)
    /\ (last.op = "Get" /\ last.err = ErrNil)
          => last.key \in residentKeys(bucketOf(last.key))

\* C33: in every reachable LIRS state lirCount equals the number of entries of
\* the key map whose isLIR flag is true, and every LIR entry is in stack S.
C33_LirCountCountsLIR ==
    \A b \in DOMAIN buckets :
        /\ buckets[b].lirCount = Cardinality(lirKeys(buckets[b]))
        /\ \A k \in lirKeys(buckets[b]) : inStack(buckets[b], k)

C33_Witness ==
    /\ last.op = "Remove"
    /\ last.ok
    /\ LET c == bucketOf(last.key)
       IN /\ c.lirCount >= 1
          /\ \E k \in residentKeys(c) \ lirKeys(c) : ~inStack(c, k)
          /\ \E k \in DOMAIN c.items : ~c.items[k].isResident

\* C34: in every reachable LIRS state queue Q holds exactly the resident HIR
\* entries, each exactly once: no LIR entry and no non-resident entry is in Q,
\* and every resident HIR entry is in Q.
C34_QueueIsResidentHIR ==
    \A b \in DOMAIN buckets :
        LET c == buckets[b]
        IN /\ \A i \in 1..Len(c.queueQ) :
                 /\ c.queueQ[i] \in residentKeys(c) \ lirKeys(c)
                 /\ \A j \in 1..Len(c.queueQ) : c.queueQ[i] = c.queueQ[j] => i = j
           /\ \A k \in residentKeys(c) \ lirKeys(c) : inQueue(c, k)

C34_Witness ==
    /\ last.op = "Get"
    /\ last.err = ErrNil
    /\ LET c == bucketOf(last.key)
       IN /\ Len(c.queueQ) >= 1
          /\ last.key \in lirKeys(c) \cap residentKeys(c)
          /\ c.hitCount = 1
          /\ \E k \in DOMAIN c.items : ~c.items[k].isResident

\* C35: the snapshot views agree: for each value of checkExpired, in a
\* quiescent state the set of keys returned by Keys equals the key set of
\* GetALL and its size equals Len; in particular Keys(false) holds only
\* resident keys.
C35_SnapshotViewsAgree ==
    \A b \in DOMAIN buckets :
        /\ \A ce \in BOOLEAN :
              /\ LIRSKeys(buckets[b], ce, wallNow)
                    = {p[1] : p \in LIRSGetALL(buckets[b], ce, wallNow)}
              /\ Cardinality(LIRSKeys(buckets[b], ce, wallNow))
                    = LIRSLen(buckets[b], ce, wallNow)
        /\ LIRSKeys(buckets[b], FALSE, wallNow) \subseteq residentKeys(buckets[b])

\* C36: in a cache built without a default expiration, Set(k, v) on a key
\* that already has an entry replaces the value and leaves the entry's
\* expiration instant unchanged: a time to live given by SetWithExpire stays
\* in force, and an entry whose time to live has passed stays expired.
C36_SetKeepsExpiration ==
    [][\A k \in AllKeys, v \in AllValues :
          (/\ Set(k, v)
           /\ bucketOf(k).expiration = NilDuration
           /\ k \in DOMAIN bucketOf(k).items)
            => LET c == bucketOf(k)
                   d == buckets'[getBucket(k)]
               IN /\ k \in DOMAIN d.items
                  /\ d.items[k].value = v
                  /\ d.items[k].expiration = c.items[k].expiration
                  /\ IsExpired(c.items[k], clockNow)
                        => IsExpired(d.items[k], clockNow')]_vars

C36_Witness ==
    /\ last.op = "Set"
    /\ last.key \in DOMAIN bucketOf(last.key).items
    /\ bucketOf(last.key).expiration = NilDuration
    /\ bucketOf(last.key).items[last.key].expiration # NilTime
    /\ IsExpired(bucketOf(last.key).items[last.key], clockNow)
    /\ bucketOf(last.key).items[last.key].value = last.value

\* the entries of c that Get and Peek treat as present at the injected clock
presentAtClock(c) ==
    {k \in DOMAIN c.items :
        c.items[k].isResident /\ ~IsExpired(c.items[k], clockNow)}

\* C37: all access paths judge expiry against the same injected clock: for
\* every state and key k, Has(k) is true iff Peek(k) returns a value, and
\* Len(true), Keys(true) and GetALL(true) exclude exactly the entries that Get
\* and Peek treat as expired, also when the injected clock differs from the
\* wall clock.
C37_OneClockForExpiry ==
    \A b \in DOMAIN buckets :
        LET c == buckets[b]
        IN /\ \A k \in AllKeys :
                 LIRSHas(c, k, wallNow) <=> (LIRSPeek(c, k, clockNow).err = ErrNil)
           /\ LIRSLen(c, TRUE, wallNow) = Cardinality(presentAtClock(c))
           /\ LIRSKeys(c, TRUE, wallNow) = presentAtClock(c)
           /\ {p[1] : p \in LIRSGetALL(c, TRUE, wallNow)} = presentAtClock(c)

\* the shards whose key map holds key k
shardsOf(k) == {b \in DOMAIN buckets : k \in DOMAIN buckets[b].items}

\* the keys XCache.Keys appends, shard after shard, with their multiplicity
keysCount(k, checkExpired) ==
    Cardinality({b \in DOMAIN buckets : k \in LIRSKeys(buckets[b], checkExpired, wallNow)})

\* C38: in the sharded cache every stored key k lives only in shard
\* hash64(k) mod B: no key is present in two shards, so in a quiescent state
\* XCache.Len(c) equals the sum of the shards' Len(c), each key counted once,
\* and Keys(c) contains no duplicate.
C38_KeyLivesInOneShard ==
    /\ \A k \in AllKeys :
          /\ shardsOf(k) \subseteq {mod64(xxhashSum64[k], bucketCount)}
          /\ \A ce \in BOOLEAN : keysCount(k, ce) <= 1
    /\ totalLen(FALSE)
          = Cardinality(UNION {residentKeys(buckets[b]) : b \in DOMAIN buckets})
    /\ totalLen(TRUE)
          = Cardinality(UNION {{k \in DOMAIN buckets[b].items : has(buckets[b], k, wallNow)} :
                                  b \in DOMAIN buckets})

C38_Witness ==
    /\ bucketCount > 1
    /\ \E k1 \in AllKeys, k2 \in AllKeys :
          /\ shardsOf(k1) # {}
          /\ shardsOf(k2) # {}
          /\ shardsOf(k1) # shardsOf(k2)
    /\ totalLen(FALSE) = 2
    /\ last.op = "Set"

\* thread u waits for c.mu of shard b and nothing but the thread t could be
\* in its way
blockedOnlyBy(u, t, b) ==
    /\ at[u].op # "none"
    /\ ~at[u].locked
    /\ at[u].bucket = b
    /\ ~canLock(u)
    /\ \A w \in Threads \ {t} : b \notin shardsHeld(w)
    /\ ~writerPending(b)

\* C39: the loader is never invoked while the calling thread holds the engine
\* mutex: Get releases the lock taken for the lookup before the load starts
\* and takes it again only to insert the result, so other operations on the
\* same shard proceed while a load is in progress.
C39_LoaderRunsUnlocked ==
    \A t \in Threads :
        /\ pc[t].state \in {"miss", "load", "loaded", "wait", "wake"}
              => shardsHeld(t) = {}
        /\ pc[t].state = "insert" => shardsHeld(t) = {getBucket(pc[t].key)}
        /\ pc[t].state \in {"miss", "load", "loaded", "wait", "wake"}
              => \A u \in Threads \ {t} : ~blockedOnlyBy(u, t, getBucket(pc[t].key))

C39_Witness ==
    \E t \in Threads, u \in Threads :
        /\ pc[t].state = "load"
        /\ at[u].op = "Set"
        /\ at[u].locked
        /\ at[u].bucket = getBucket(pc[t].key)
        /\ at[u].key = pc[t].key

\* C40: LIRS Peek with a deserializeFunc is lock-balanced: deserializeFunc
\* runs with the read lock released, and when Peek returns, with a value or
\* with an error, the calling thread holds no lock of the engine, so a later
\* Set or Get on the same cache is not blocked by a finished Peek.
C40_PeekLockBalanced ==
    \A t \in Threads :
        /\ (at[t].op = "PeekDone" /\ ~at[t].locked) => shardsHeld(t) = {}
        /\ (at[t].op = "PeekDone" /\ at[t].locked) => shardsHeld(t) = {at[t].bucket}
        /\ at[t].op = "none" =>
              /\ shardsHeld(t) = {}
              /\ \A u \in Threads \ {t}, b \in DOMAIN buckets : ~blockedOnlyBy(u, t, b)

C40_Witness ==
    /\ last.op = "Peek"
    /\ last.err = ErrDeserialize
    /\ \E t \in Threads, u \in Threads :
          /\ at[t].op = "none"
          /\ at[u].op = "Set"
          /\ at[u].locked
          /\ at[u].key = last.key

==============================================================================
